---- MODULE Spec2Model ----
(***************************************************************************)
(* Model of the schema-driven configuration validator of shakyo            *)
(* (namespace TrainingState: trainingStateSchema, validateEntry,           *)
(* validateConfig) and of the way its result is fed back into it.          *)
(*                                                                         *)
(* JavaScript numbers are modelled as fixed-point integers counting        *)
(* hundredths: 50 stands for 0.5, 290 for 2.9, 8000 for 80, -300 for -3.   *)
(* A JavaScript value is a record tagged with the result of `typeof`.      *)
(***************************************************************************)
EXTENDS Integers, Sequences, FiniteSets, TLC

(***************************************************************************)
(* Bounds of the model.                                                    *)
(***************************************************************************)
\* Number of validateConfig calls in one run: the first call on the raw
\* mapping, every later call on the configuration the previous one returned.
MaxPasses == 2

(***************************************************************************)
(* JavaScript values.                                                      *)
(***************************************************************************)
Undefined == [type |-> "undefined", num |-> 0, str |-> "", bool |-> FALSE]
Num(n) == [type |-> "number", num |-> n, str |-> "", bool |-> FALSE]
Str(s) == [type |-> "string", num |-> 0, str |-> s, bool |-> FALSE]
Bool(b) == [type |-> "boolean", num |-> 0, str |-> "", bool |-> b]

\* typeof v
TypeOf(v) == v.type

\* Math.floor on hundredths.
MathFloor(n) == (n \div 100) * 100

\* String conversion of a number, as in 'text' + n and `${n}`.
NumberToString(n) ==
    LET a == IF n < 0 THEN -n ELSE n
        frac == a % 100
        digits == ToString(a \div 100) \o
                  (CASE frac = 0 -> ""
                     [] frac # 0 /\ frac % 10 = 0 -> "." \o ToString(frac \div 10)
                     [] frac % 10 # 0 /\ frac < 10 -> ".0" \o ToString(frac)
                     [] OTHER -> "." \o ToString(frac))
    IN IF n < 0 THEN "-" \o digits ELSE digits

\* String conversion of a value inside a template literal, `${v}`.
TemplateString(v) ==
    CASE v.type = "number" -> NumberToString(v.num)
      [] v.type = "string" -> v.str
      [] v.type = "boolean" -> (IF v.bool THEN "true" ELSE "false")
      [] OTHER -> "undefined"

(***************************************************************************)
(* The inputs: raw values, paths, raw mappings.                            *)
(***************************************************************************)
ExamplePath == "./example_text.txt"
OtherPath == "./other_text.txt"
Paths == {ExamplePath, OtherPath}
Numbers == {-300, 0, 50, 100, 150, 290, 8000}

\* Marks a key the raw mapping does not have (not a JavaScript value).
Absent == [type |-> "absent", num |-> 0, str |-> "", bool |-> FALSE]

\* Keys of the schema in declaration order (the order of `for (key in ...)`).
SchemaKeys ==
    <<"winProbability", "fragmentLength", "challengeIndex", "challengeFile",
      "maxAttempts">>
DeclaredKeys == {SchemaKeys[i] : i \in 1..Len(SchemaKeys)}
\* A key of the raw mapping that the schema does not declare.
ExtraKey == "extraKey"

\* The values a raw mapping is given under a key: every number for a number
\* field, one value of each other type; for challengeFile every path and one
\* value of each other type; the key may hold undefined or be absent.
InputValues(key) ==
    CASE key = "challengeFile" ->
           {Absent, Undefined, Bool(TRUE), Num(50)} \cup {Str(p) : p \in Paths}
      [] key = ExtraKey -> {Absent, Num(50)}
      [] OTHER ->
           {Absent, Undefined, Bool(TRUE), Str(ExamplePath)}
               \cup {Num(n) : n \in Numbers}

\* The object literal whose properties are the slots that are not Absent.
ObjectOf(slots) ==
    [k \in {x \in DOMAIN slots : slots[x] # Absent} |-> slots[k]]

\* loadedConfig[key]: a key the mapping does not have reads as undefined.
Lookup(cfg, key) == IF key \in DOMAIN cfg THEN cfg[key] ELSE Undefined

(***************************************************************************)
(* trainingStateSchema: the per-field checkers and the table.              *)
(***************************************************************************)
\* Variant: the bounds of the interval are accepted.
WinProbabilityCheckInclusive(n) ==
    IF n >= 0 /\ n <= 100
    THEN [valid |-> Num(n)]
    ELSE [error |-> "The probability must be strictly between 0 and 1, but was "
                       \o NumberToString(n)]

WinProbabilityCheck(n) ==
    IF n > 0 /\ n < 100
    THEN [valid |-> Num(n)]
    ELSE [error |-> "The probability must be strictly between 0 and 1, but was "
                       \o NumberToString(n)]

\* Variant: every positive length is accepted (n > 0 instead of n >= 1).
FragmentLengthCheckPositive(n) ==
    IF n > 0
    THEN [valid |-> Num(MathFloor(n))]
    ELSE [error |-> "The fragment length must be positive, but was "
                       \o NumberToString(n)]

FragmentLengthCheck(n) ==
    IF n >= 100
    THEN [valid |-> Num(MathFloor(n))]
    ELSE [error |-> "The fragment length must be positive, but was "
                       \o NumberToString(n)]

ChallengeIndexCheck(n) ==
    IF n >= 0
    THEN [valid |-> Num(MathFloor(n))]
    ELSE [error |-> "The challenge index must be non-negative (0-based), but was "
                       \o NumberToString(n)]

\* existsSync(relFilePath) against the file system fs (the set of paths
\* that exist).
ExistsSync(relFilePath, fs) == relFilePath \in fs

\* Variant: a negative probe is retried once.
ChallengeFileCheckRetry(relFilePath, fs) ==
    IF ExistsSync(relFilePath, fs)
    THEN [entry |-> [valid |-> Str(relFilePath)], probes |-> <<relFilePath>>]
    ELSE IF ExistsSync(relFilePath, fs)
         THEN [entry |-> [valid |-> Str(relFilePath)],
               probes |-> <<relFilePath, relFilePath>>]
         ELSE [entry |-> [error |-> "Couldn't find the file \"" \o relFilePath
                                       \o "\"."],
               probes |-> <<relFilePath, relFilePath>>]

\* Besides the validated entry the result lists the paths handed to
\* existsSync, in order.
ChallengeFileCheck(relFilePath, fs) ==
    IF ExistsSync(relFilePath, fs)
    THEN [entry |-> [valid |-> Str(relFilePath)], probes |-> <<relFilePath>>]
    ELSE [entry |-> [error |-> "Couldn't find the file \"" \o relFilePath
                                  \o "\"."],
          probes |-> <<relFilePath>>]

MaxAttemptsCheck(n) ==
    IF n >= 100
    THEN [valid |-> Num(MathFloor(n))]
    ELSE [error |-> "Expected a positive integer number of attempts, but got "
                       \o NumberToString(n) \o "."]

\* defaultValue of the entries that carry one.
WinProbabilityDefault == Num(75)
FragmentLengthDefault == Num(4000)
ChallengeIndexDefault == Num(0)
\* Variant: a default that its own checker rejects.
MaxAttemptsDefaultZero == Num(0)
MaxAttemptsDefault == Num(300)

trainingStateSchema ==
    [winProbability |->
        [type |-> "number", isRequired |-> TRUE, hasDefault |-> TRUE,
         defaultValue |-> WinProbabilityDefault,
         description |->
           "Probability of winning on each challenge that the program should aim for."],
     fragmentLength |->
        [type |-> "number", isRequired |-> TRUE, hasDefault |-> TRUE,
         defaultValue |-> FragmentLengthDefault,
         description |-> "Maximum length of the text fragment in each round."],
     challengeIndex |->
        [type |-> "number", isRequired |-> FALSE, hasDefault |-> TRUE,
         defaultValue |-> ChallengeIndexDefault,
         description |-> "Index of the current challenge."],
     challengeFile |->
        [type |-> "string", isRequired |-> TRUE, hasDefault |-> FALSE,
         defaultValue |-> Undefined,
         description |-> "Path to the file containing the textual data."],
     maxAttempts |->
        [type |-> "number", isRequired |-> FALSE, hasDefault |-> TRUE,
         defaultValue |-> MaxAttemptsDefault,
         description |-> "Maximum number of attempts allowed on same fragment."]]

\* schemaEntry.check(entryValue) of the entry declared under key.
SchemaCheck(key, entryValue, fs) ==
    CASE key = "winProbability" ->
           [entry |-> WinProbabilityCheck(entryValue.num), probes |-> <<>>]
      [] key = "fragmentLength" ->
           [entry |-> FragmentLengthCheck(entryValue.num), probes |-> <<>>]
      [] key = "challengeIndex" ->
           [entry |-> ChallengeIndexCheck(entryValue.num), probes |-> <<>>]
      [] key = "challengeFile" ->
           ChallengeFileCheck(entryValue.str, fs)
      [] key = "maxAttempts" ->
           [entry |-> MaxAttemptsCheck(entryValue.num), probes |-> <<>>]

(***************************************************************************)
(* validateEntry.  Besides the validated entry the result records whether  *)
(* the checker was invoked (checked) and the paths that were probed.       *)
(***************************************************************************)
\* Variant: an absent field falls back to the default whenever the entry
\* carries one, required or not.
ValidateEntryDefaultFirst(key, schemaEntry, entryValue, fs) ==
    IF TypeOf(entryValue) = "undefined"
    THEN IF schemaEntry.isRequired /\ ~schemaEntry.hasDefault
         THEN [entry |-> [error |-> "Missing required setting '" \o key
                                     \o "' of type " \o schemaEntry.type
                                     \o " (" \o schemaEntry.description \o ")"],
               checked |-> FALSE, probes |-> <<>>]
         ELSE [entry |-> [valid |-> schemaEntry.defaultValue],
               checked |-> FALSE, probes |-> <<>>]
    ELSE IF TypeOf(entryValue) = schemaEntry.type
         THEN LET c == SchemaCheck(key, entryValue, fs)
              IN [entry |-> c.entry, checked |-> TRUE, probes |-> c.probes]
         ELSE [entry |-> [error |-> "Invalid type of " \o key
                                     \o ", expected a " \o schemaEntry.type
                                     \o ", but got: " \o TemplateString(entryValue)],
               checked |-> FALSE, probes |-> <<>>]

\* Variant: the default of an absent optional field is run through the
\* checker.
ValidateEntryCheckedDefault(key, schemaEntry, entryValue, fs) ==
    IF TypeOf(entryValue) = "undefined"
    THEN IF schemaEntry.isRequired
         THEN [entry |-> [error |-> "Missing required setting '" \o key
                                     \o "' of type " \o schemaEntry.type
                                     \o " (" \o schemaEntry.description \o ")"],
               checked |-> FALSE, probes |-> <<>>]
         ELSE LET c == SchemaCheck(key, schemaEntry.defaultValue, fs)
              IN [entry |-> c.entry, checked |-> TRUE, probes |-> c.probes]
    ELSE IF TypeOf(entryValue) = schemaEntry.type
         THEN LET c == SchemaCheck(key, entryValue, fs)
              IN [entry |-> c.entry, checked |-> TRUE, probes |-> c.probes]
         ELSE [entry |-> [error |-> "Invalid type of " \o key
                                     \o ", expected a " \o schemaEntry.type
                                     \o ", but got: " \o TemplateString(entryValue)],
               checked |-> FALSE, probes |-> <<>>]

\* Variant: no type gate, every supplied value is handed to the checker.
ValidateEntryNoTypeGate(key, schemaEntry, entryValue, fs) ==
    IF TypeOf(entryValue) = "undefined"
    THEN IF schemaEntry.isRequired
         THEN [entry |-> [error |-> "Missing required setting '" \o key
                                     \o "' of type " \o schemaEntry.type
                                     \o " (" \o schemaEntry.description \o ")"],
               checked |-> FALSE, probes |-> <<>>]
         ELSE [entry |-> [valid |-> schemaEntry.defaultValue],
               checked |-> FALSE, probes |-> <<>>]
    ELSE LET c == SchemaCheck(key, entryValue, fs)
         IN [entry |-> c.entry, checked |-> TRUE, probes |-> c.probes]

ValidateEntry(key, schemaEntry, entryValue, fs) ==
    IF TypeOf(entryValue) = "undefined"
    THEN IF schemaEntry.isRequired
         THEN [entry |-> [error |-> "Missing required setting '" \o key
                                     \o "' of type " \o schemaEntry.type
                                     \o " (" \o schemaEntry.description \o ")"],
               checked |-> FALSE, probes |-> <<>>]
         ELSE [entry |-> [valid |-> schemaEntry.defaultValue],
               checked |-> FALSE, probes |-> <<>>]
    ELSE IF TypeOf(entryValue) = schemaEntry.type
         THEN LET c == SchemaCheck(key, entryValue, fs)
              IN [entry |-> c.entry, checked |-> TRUE, probes |-> c.probes]
         ELSE [entry |-> [error |-> "Invalid type of " \o key
                                     \o ", expected a " \o schemaEntry.type
                                     \o ", but got: " \o TemplateString(entryValue)],
               checked |-> FALSE, probes |-> <<>>]

(***************************************************************************)
(* validateConfig.                                                         *)
(***************************************************************************)
\* One iteration of the loop over the schema: acc holds errors and result,
\* and the log of checker invocations (calls) and probed paths (probes).
LoopBody(key, loadedConfig, fs, acc) ==
    LET schema == trainingStateSchema[key]
        v == ValidateEntry(key, schema, Lookup(loadedConfig, key), fs)
    IN IF "error" \in DOMAIN v.entry
       THEN [errors |-> Append(acc.errors, v.entry.error),
             result |-> acc.result,
             calls |-> IF v.checked THEN Append(acc.calls, key) ELSE acc.calls,
             probes |-> acc.probes \o v.probes]
       ELSE [errors |-> acc.errors,
             result |-> (key :> v.entry.valid) @@ acc.result,
             calls |-> IF v.checked THEN Append(acc.calls, key) ELSE acc.calls,
             probes |-> acc.probes \o v.probes]

\* Variant: the loop stops at the first field that produced an error.
RECURSIVE ValidateLoopShortCircuit(_, _, _, _)
ValidateLoopShortCircuit(i, loadedConfig, fs, acc) ==
    IF i > Len(SchemaKeys) \/ Len(acc.errors) > 0
    THEN acc
    ELSE ValidateLoopShortCircuit(i + 1, loadedConfig, fs,
                                  LoopBody(SchemaKeys[i], loadedConfig, fs, acc))

RECURSIVE ValidateLoop(_, _, _, _)
ValidateLoop(i, loadedConfig, fs, acc) ==
    IF i > Len(SchemaKeys)
    THEN acc
    ELSE ValidateLoop(i + 1, loadedConfig, fs,
                      LoopBody(SchemaKeys[i], loadedConfig, fs, acc))

EmptyObject == [k \in {} |-> Undefined]

\* Variant: a single error is not enough to reject (length > 1).
ReturnValueOffByOne(errors, result) ==
    IF Len(errors) > 1
    THEN [errors |-> errors]
    ELSE [valid |-> result]

\* The return statement of validateConfig.
ReturnValue(errors, result) ==
    IF Len(errors) > 0
    THEN [errors |-> errors]
    ELSE [valid |-> result]

ValidateConfig(loadedConfig, fs) ==
    LET out == ValidateLoop(1, loadedConfig, fs,
                            [errors |-> <<>>, result |-> EmptyObject,
                             calls |-> <<>>, probes |-> <<>>])
    IN [ret |-> ReturnValue(out.errors, out.result),
        calls |-> out.calls, probes |-> out.probes]

(***************************************************************************)
(* The state machine: a raw mapping and a file system are given, the       *)
(* mapping is validated, and a valid configuration is validated again.     *)
(***************************************************************************)
VARIABLES
    loadedConfig,   \* the argument of validateConfig
    fsExists,       \* the paths that exist (what existsSync answers)
    pc,             \* "ready": before the call, "returned": after it
    ret,            \* the value validateConfig returned
    calls,          \* keys whose checker the call invoked, in order
    probes,         \* paths the call handed to existsSync, in order
    pass,           \* number of the current validateConfig call
    prev            \* the value the previous call returned

vars == <<loadedConfig, fsExists, pc, ret, calls, probes, pass, prev>>

NoReturn == [pending |-> TRUE]

Init ==
    /\ \E wp \in InputValues("winProbability"),
          fl \in InputValues("fragmentLength"),
          ci \in InputValues("challengeIndex"),
          cf \in InputValues("challengeFile"),
          ma \in InputValues("maxAttempts"),
          ex \in InputValues(ExtraKey) :
            loadedConfig =
                ObjectOf([winProbability |-> wp, fragmentLength |-> fl,
                          challengeIndex |-> ci, challengeFile |-> cf,
                          maxAttempts |-> ma, extraKey |-> ex])
    /\ fsExists \in SUBSET Paths
    /\ pc = "ready"
    /\ ret = NoReturn
    /\ calls = <<>>
    /\ probes = <<>>
    /\ pass = 1
    /\ prev = NoReturn

\* validateConfig(loadedConfig)
Validate ==
    /\ pc = "ready"
    /\ LET r == ValidateConfig(loadedConfig, fsExists)
       IN /\ ret' = r.ret
          /\ calls' = r.calls
          /\ probes' = r.probes
    /\ pc' = "returned"
    /\ UNCHANGED <<loadedConfig, fsExists, pass, prev>>

\* The valid configuration is handed to validateConfig again.
Revalidate ==
    /\ pc = "returned"
    /\ "valid" \in DOMAIN ret
    /\ pass < MaxPasses
    /\ loadedConfig' = ret.valid
    /\ prev' = ret
    /\ ret' = NoReturn
    /\ calls' = <<>>
    /\ probes' = <<>>
    /\ pass' = pass + 1
    /\ pc' = "ready"
    /\ UNCHANGED fsExists

Next == Validate \/ Revalidate

Spec == Init /\ [][Next]_vars

TypeOK ==
    /\ pc \in {"ready", "returned"}
    /\ pass \in 1..MaxPasses
    /\ fsExists \subseteq Paths

(***************************************************************************)
(* Vocabulary of the properties.  A key whose value is undefined reads     *)
(* exactly like a key the mapping does not have, and counts as omitted.    *)
(***************************************************************************)
Returned == pc = "returned"
IsValid == "valid" \in DOMAIN ret
IsErrors == "errors" \in DOMAIN ret

InSeq(s, x) == \E i \in 1..Len(s) : s[i] = x
Count(s, x) == Cardinality({i \in 1..Len(s) : s[i] = x})

Given(k) == Lookup(loadedConfig, k)
Omitted(k) == TypeOf(Given(k)) = "undefined"

RequiredKeys == {"winProbability", "fragmentLength", "challengeFile"}
OptionalKeys == {"challengeIndex", "maxAttempts"}
IntegerKeys == {"fragmentLength", "challengeIndex", "maxAttempts"}
DeclaredType(k) == IF k = "challengeFile" THEN "string" ELSE "number"
DocumentedDefault(k) == IF k = "challengeIndex" THEN Num(0) ELSE Num(300)
\* Least accepted value of an integer-normalized field: 1, 0, 1.
Least(k) == IF k = "challengeIndex" THEN 0 ELSE 100

\* m is the integer floor of n (both in hundredths).
IsFloorOf(m, n) == m % 100 = 0 /\ m <= n /\ n < m + 100

MissingMessage(k) ==
    "Missing required setting '" \o k \o "' of type " \o DeclaredType(k)
        \o " (" \o trainingStateSchema[k].description \o ")"

InvalidTypeMessage(k) ==
    "Invalid type of " \o k \o ", expected a " \o DeclaredType(k)
        \o ", but got: " \o TemplateString(Given(k))

SemanticMessage(k) ==
    CASE k = "winProbability" ->
           "The probability must be strictly between 0 and 1, but was "
               \o NumberToString(Given(k).num)
      [] k = "fragmentLength" ->
           "The fragment length must be positive, but was "
               \o NumberToString(Given(k).num)
      [] k = "challengeIndex" ->
           "The challenge index must be non-negative (0-based), but was "
               \o NumberToString(Given(k).num)
      [] k = "challengeFile" ->
           "Couldn't find the file \"" \o Given(k).str \o "\"."
      [] k = "maxAttempts" ->
           "Expected a positive integer number of attempts, but got "
               \o NumberToString(Given(k).num) \o "."

MissingRequired(k) == Omitted(k) /\ k \in RequiredKeys
TypeMismatch(k) == ~Omitted(k) /\ TypeOf(Given(k)) # DeclaredType(k)
WellTyped(k) == TypeOf(Given(k)) = DeclaredType(k)
SemanticViolation(k) ==
    /\ WellTyped(k)
    /\ CASE k = "winProbability" -> ~(0 < Given(k).num /\ Given(k).num < 100)
         [] k = "challengeFile" -> Given(k).str \notin fsExists
         [] OTHER -> Given(k).num < Least(k)

Fails(k) == MissingRequired(k) \/ TypeMismatch(k) \/ SemanticViolation(k)
FailingKeys == SelectSeq(SchemaKeys, Fails)

DocumentedError(k) ==
    CASE MissingRequired(k) -> MissingMessage(k)
      [] TypeMismatch(k) -> InvalidTypeMessage(k)
      [] OTHER -> SemanticMessage(k)

\* The raw mappings of the two concrete scenarios.
MainConfig ==
    [winProbability |-> Num(50), fragmentLength |-> Num(8000),
     challengeFile |-> Str(ExamplePath)]
ThreeErrorsConfig ==
    [winProbability |-> Num(150), fragmentLength |-> Num(-300),
     challengeFile |-> Str(OtherPath)]

(***************************************************************************)
(* The properties.                                                         *)
(***************************************************************************)

\* C1: validateConfig returns exactly one of two shapes: { valid } whose key
\* set is exactly the five declared keys, produced only when no field
\* failed, or { errors } with a non-empty list of errors.
C1_TwoShapes ==
    Returned =>
        \/ /\ DOMAIN ret = {"valid"}
           /\ DOMAIN ret.valid = DeclaredKeys
           /\ \A k \in DeclaredKeys : ~Fails(k)
        \/ /\ DOMAIN ret = {"errors"}
           /\ Len(ret.errors) > 0

\* C1 witness: a mapping with an undeclared key was validated successfully.
C1_Witness ==
    /\ Returned /\ pass = 1
    /\ ExtraKey \in DOMAIN loadedConfig
    /\ IsValid
    /\ ExtraKey \notin DOMAIN ret.valid

\* C2: validation never short-circuits: when exactly N declared fields fail
\* the result is a list of exactly N errors, one per failing field, in
\* schema declaration order; the scenario winProbability 1.5, fragmentLength
\* -3, missing file yields its three errors in that order.
C2_NoShortCircuit ==
    Returned =>
        /\ IF Len(FailingKeys) = 0
           THEN IsValid
           ELSE /\ IsErrors
                /\ Len(ret.errors) = Len(FailingKeys)
                /\ \A i \in 1..Len(FailingKeys) :
                       ret.errors[i] = DocumentedError(FailingKeys[i])
        /\ (loadedConfig = ThreeErrorsConfig /\ fsExists = {ExamplePath}) =>
               /\ IsErrors
               /\ ret.errors =
                    <<"The probability must be strictly between 0 and 1, but was 1.5",
                      "The fragment length must be positive, but was -3",
                      "Couldn't find the file \"./other_text.txt\".">>

\* C2 witness: the three-error scenario has returned its three errors.
C2_Witness ==
    /\ Returned
    /\ loadedConfig = ThreeErrorsConfig
    /\ fsExists = {ExamplePath}
    /\ IsErrors
    /\ Len(ret.errors) = 3

\* C3: when a required field is omitted, the result is an error list that
\* contains the missing-field message of that key exactly once, there is no
\* valid configuration, and the checker of the field is not invoked.
C3_MissingRequired ==
    Returned =>
        \A k \in RequiredKeys :
            Omitted(k) =>
                /\ IsErrors
                /\ ~IsValid
                /\ Count(ret.errors, MissingMessage(k)) = 1
                /\ ~InSeq(calls, k)

\* C3 witness: only fragmentLength, which carries a default, was omitted and
\* the call returned the single missing-field error.
C3_Witness ==
    /\ Returned
    /\ "fragmentLength" \notin DOMAIN loadedConfig
    /\ IsErrors
    /\ ret.errors =
         <<"Missing required setting 'fragmentLength' of type number (Maximum length of the text fragment in each round.)">>

\* C4: when an optional field is omitted its checker is not invoked, and if
\* no other field fails the valid configuration holds the documented
\* default (challengeIndex 0, maxAttempts 3); the configuration of main
\* validates to itself plus the two defaults.
C4_OptionalDefault ==
    Returned =>
        /\ \A k \in OptionalKeys :
               Omitted(k) =>
                   /\ ~InSeq(calls, k)
                   /\ (\A j \in DeclaredKeys \ {k} : ~Fails(j)) =>
                          /\ IsValid
                          /\ ret.valid[k] = DocumentedDefault(k)
        /\ (loadedConfig = MainConfig /\ fsExists = {ExamplePath}) =>
               /\ IsValid
               /\ ret.valid =
                    [winProbability |-> Num(50), fragmentLength |-> Num(8000),
                     challengeIndex |-> Num(0),
                     challengeFile |-> Str(ExamplePath),
                     maxAttempts |-> Num(300)]

\* C4 witness: the configuration of main was validated with both optional
\* fields defaulted.
C4_Witness ==
    /\ Returned
    /\ loadedConfig = MainConfig
    /\ fsExists = {ExamplePath}
    /\ IsValid
    /\ ret.valid.challengeIndex = Num(0)
    /\ ret.valid.maxAttempts = Num(300)

\* C5: a field that is supplied with a value of another type than the
\* declared one contributes exactly the invalid-type error, at its place
\* among the errors, and its checker is not invoked; a non-string
\* challengeFile never triggers the existence probe.
C5_TypeGate ==
    Returned =>
        /\ \A i \in 1..Len(FailingKeys) :
               TypeMismatch(FailingKeys[i]) =>
                   /\ IsErrors
                   /\ Len(ret.errors) = Len(FailingKeys)
                   /\ ret.errors[i] = InvalidTypeMessage(FailingKeys[i])
                   /\ ~InSeq(calls, FailingKeys[i])
        /\ \A k \in DeclaredKeys : TypeMismatch(k) => InSeq(FailingKeys, k)
        /\ ~WellTyped("challengeFile") => probes = <<>>

\* C5 witness: a number was supplied as challengeFile and a boolean as
\* maxAttempts; both invalid-type errors were returned without any probe.
C5_Witness ==
    /\ Returned
    /\ Given("challengeFile") = Num(50)
    /\ Given("maxAttempts") = Bool(TRUE)
    /\ IsErrors
    /\ InSeq(ret.errors, "Invalid type of challengeFile, expected a string, but got: 0.5")
    /\ InSeq(ret.errors, "Invalid type of maxAttempts, expected a number, but got: true")
    /\ probes = <<>>

\* C6: a number n supplied for fragmentLength or maxAttempts is accepted iff
\* n >= 1, for challengeIndex iff n >= 0; the accepted value stored in the
\* configuration is floor(n); otherwise the field yields its semantic
\* error.  fragmentLength 2.9 is stored as 2, fragmentLength 0 is an error.
C6_IntegerFields ==
    Returned =>
        /\ \A k \in IntegerKeys :
               TypeOf(Given(k)) = "number" =>
                   IF Given(k).num >= Least(k)
                   THEN /\ IsErrors => ~InSeq(ret.errors, SemanticMessage(k))
                        /\ (\A j \in DeclaredKeys \ {k} : ~Fails(j)) => IsValid
                        /\ IsValid =>
                               /\ TypeOf(ret.valid[k]) = "number"
                               /\ IsFloorOf(ret.valid[k].num, Given(k).num)
                   ELSE /\ IsErrors
                        /\ Count(ret.errors, SemanticMessage(k)) = 1
        /\ (Given("fragmentLength") = Num(290) /\ IsValid) =>
               ret.valid.fragmentLength = Num(200)
        /\ Given("fragmentLength") = Num(0) =>
               /\ IsErrors
               /\ InSeq(ret.errors, "The fragment length must be positive, but was 0")

\* C6 witness: fragmentLength 2.9 and challengeIndex 2.9 were stored as 2.
C6_Witness ==
    /\ Returned /\ pass = 1
    /\ Given("fragmentLength") = Num(290)
    /\ Given("challengeIndex") = Num(290)
    /\ IsValid
    /\ ret.valid.fragmentLength = Num(200)
    /\ ret.valid.challengeIndex = Num(200)

\* C7: a number p supplied for winProbability is accepted iff 0 < p < 1 and
\* is then stored unchanged; any other p, 0 and 1 included, yields the error
\* 'The probability must be strictly between 0 and 1, but was <p>'.
C7_WinProbability ==
    Returned =>
        /\ TypeOf(Given("winProbability")) = "number" =>
               IF 0 < Given("winProbability").num
                     /\ Given("winProbability").num < 100
               THEN /\ IsErrors =>
                          ~InSeq(ret.errors, SemanticMessage("winProbability"))
                    /\ (\A j \in DeclaredKeys \ {"winProbability"} : ~Fails(j))
                          => IsValid
                    /\ IsValid =>
                          ret.valid.winProbability = Given("winProbability")
               ELSE /\ IsErrors
                    /\ ret.errors[1] = SemanticMessage("winProbability")
        /\ Given("winProbability") = Num(0) =>
               /\ IsErrors
               /\ ret.errors[1] =
                    "The probability must be strictly between 0 and 1, but was 0"
        /\ Given("winProbability") = Num(100) =>
               /\ IsErrors
               /\ ret.errors[1] =
                    "The probability must be strictly between 0 and 1, but was 1"
        /\ (Given("winProbability") = Num(50) /\ IsValid) =>
               ret.valid.winProbability = Num(50)

\* C7 witness: winProbability 1 was the only rejected field.
C7_Witness ==
    /\ Returned
    /\ Given("winProbability") = Num(100)
    /\ IsErrors
    /\ ret.errors =
         <<"The probability must be strictly between 0 and 1, but was 1">>

\* C8: a string supplied for challengeFile is accepted, unchanged, iff the
\* path exists; a negative probe yields the error of that field only, the
\* checkers of the other supplied fields are still invoked, and existsSync
\* is consulted at most once per call.
C8_ExistenceProbe ==
    Returned =>
        /\ Len(probes) <= 1
        /\ WellTyped("challengeFile") =>
               /\ probes = <<Given("challengeFile").str>>
               /\ \A j \in DeclaredKeys : WellTyped(j) => InSeq(calls, j)
               /\ IF Given("challengeFile").str \in fsExists
                  THEN /\ IsErrors =>
                             ~InSeq(ret.errors, SemanticMessage("challengeFile"))
                       /\ (\A j \in DeclaredKeys \ {"challengeFile"} : ~Fails(j))
                             => IsValid
                       /\ IsValid =>
                             ret.valid.challengeFile = Given("challengeFile")
                  ELSE /\ IsErrors
                       /\ Count(ret.errors, SemanticMessage("challengeFile")) = 1
                       /\ Len(ret.errors) = Len(FailingKeys)

\* C8 witness: the path did not exist while another one did, the probe was
\* made once, its error is the only one and the checker of maxAttempts
\* still ran.
C8_Witness ==
    /\ Returned
    /\ Given("challengeFile") = Str(ExamplePath)
    /\ fsExists = {OtherPath}
    /\ probes = <<ExamplePath>>
    /\ IsErrors
    /\ ret.errors = <<"Couldn't find the file \"./example_text.txt\".">>
    /\ InSeq(calls, "maxAttempts")

\* C9: every schema entry with isRequired = false carries a defaultValue of
\* its declared type and every entry with isRequired = true carries none
\* (stated of the schema a call of validateConfig has just consulted).
C9_SchemaWellFormed ==
    Returned =>
        \A k \in DeclaredKeys :
            /\ trainingStateSchema[k].hasDefault
                   <=> ~trainingStateSchema[k].isRequired
            /\ trainingStateSchema[k].hasDefault =>
                   TypeOf(trainingStateSchema[k].defaultValue)
                       = trainingStateSchema[k].type

\* C10: validating the configuration a successful call returned, with the
\* file system unchanged, succeeds again and returns the same value for
\* every field.
C10_FixedPoint ==
    (Returned /\ pass > 1) =>
        /\ IsValid
        /\ DOMAIN ret.valid = DOMAIN prev.valid
        /\ \A k \in DeclaredKeys : ret.valid[k] = prev.valid[k]

\* C10 witness: a configuration with a floored fragmentLength and a
\* defaulted maxAttempts was validated a second time.
C10_Witness ==
    /\ Returned /\ pass = 2
    /\ IsValid
    /\ prev.valid.fragmentLength = Num(200)
    /\ prev.valid.maxAttempts = Num(300)
    /\ ret.valid.fragmentLength = Num(200)
====
